---- MODULE Spec2Model ----
(***************************************************************************)
(* FPL Brain: the React front end (App, StartingXIView) with its planned-  *)
(* transfer list and the Starting-XI recomputation, and the engine's       *)
(* expected-minutes estimator and transfer recommender.                    *)
(*                                                                         *)
(* Points are integers in tenths of a point (the JSON carries one          *)
(* decimal); minutes are whole minutes.                                    *)
(***************************************************************************)
EXTENDS Integers, Sequences, FiniteSets, TLC

VARIABLES
    loading,            \* App state: the initial load has not finished
    responses,          \* the load: the outcome of each data file's fetch
    datasets,           \* App state: each dataset, <<>> for null
    recommendations,    \* recommendations.transfer_recommendations as loaded
    currentData,        \* the selected gameweek's record of starting_xi.json
    plannedTransfers,   \* App state: the planned-transfer list
    activeTab,          \* App state: the tab shown
    viewMode,           \* StartingXIView state: "current" or "planned"
    effectPending,      \* StartingXIView: the auto-switch effect has yet to run
    renders,            \* StartingXIView: the lineups rendered from the present inputs
    xminIn,             \* estimator: the player the estimate is asked for
    xminOut,            \* estimator: <<>> or <<the estimate>>
    recIn,              \* recommender: <<>> or <<squad, bank>>
    recOut,             \* recommender: <<>> or <<the recommendations>>
    projIn,             \* projection model: <<>> or <<player and fixture, raised xG>>
    projOut             \* projection model: <<>> or <<the two projections>>

vars == <<loading, responses, datasets, recommendations, currentData,
          plannedTransfers, activeTab, viewMode, effectPending, renders,
          xminIn, xminOut, recIn, recOut, projIn, projOut>>

loadVars == <<loading, responses, datasets>>
appVars == <<loadVars, recommendations, currentData, plannedTransfers, activeTab,
             viewMode, effectPending, renders>>
xminVars == <<xminIn, xminOut>>
recVars == <<recIn, recOut>>
projVars == <<projIn, projOut>>
engineVars == <<xminVars, recVars, projVars>>

(***************************************************************************)
(* Bounds.                                                                 *)
(***************************************************************************)
\* the number of transfer recommendations in recommendations.json
NumRecs == 2

(***************************************************************************)
(* Helpers.                                                                *)
(***************************************************************************)
Min(a, b) == IF a <= b THEN a ELSE b

Max(a, b) == IF a >= b THEN a ELSE b

\* Array.prototype.slice(from, to) on a sequence (0-based, to exclusive)
Slice(s, from, to) == SubSeq(s, from + 1, Min(to, Len(s)))

\* Array.prototype.slice(from)
SliceFrom(s, from) == SubSeq(s, from + 1, Len(s))

RECURSIVE SumEff(_)
\* reduce((s, p) => s + (p.effective_pts || 0), 0)
SumEff(s) ==
    IF s = <<>> THEN 0
    ELSE SumEff(SubSeq(s, 1, Len(s) - 1)) + s[Len(s)].effective_pts

RECURSIVE InsertDesc(_, _)
\* p put into the descending sequence s behind every element that is not smaller
InsertDesc(s, p) ==
    IF s = <<>> THEN <<p>>
    ELSE IF s[Len(s)].effective_pts >= p.effective_pts THEN Append(s, p)
    ELSE Append(InsertDesc(SubSeq(s, 1, Len(s) - 1), p), s[Len(s)])

RECURSIVE sortByEffectivePts(_)
\* sort((a, b) => (b.effective_pts || 0) - (a.effective_pts || 0)): descending,
\* stable (equal elements keep their order)
sortByEffectivePts(s) ==
    IF s = <<>> THEN <<>>
    ELSE InsertDesc(sortByEffectivePts(SubSeq(s, 1, Len(s) - 1)), s[Len(s)])

(***************************************************************************)
(* The squad of starting_xi.json.                                          *)
(***************************************************************************)
\* players per position of an FPL squad
SquadShape == ("GK" :> 2) @@ ("DEF" :> 5) @@ ("MID" :> 5) @@ ("FWD" :> 3)

Positions == <<"GK", "DEF", "MID", "FWD">>

SquadIds == 1..(SquadShape["GK"] + SquadShape["DEF"] + SquadShape["MID"] + SquadShape["FWD"])

PositionOf(id) ==
    IF id <= SquadShape["GK"] THEN "GK"
    ELSE IF id <= SquadShape["GK"] + SquadShape["DEF"] THEN "DEF"
    ELSE IF id <= SquadShape["GK"] + SquadShape["DEF"] + SquadShape["MID"] THEN "MID"
    ELSE "FWD"

\* the first squad id of a position, less one
Offset(pos) ==
    CASE pos = "GK" -> 0
      [] pos = "DEF" -> SquadShape["GK"]
      [] pos = "MID" -> SquadShape["GK"] + SquadShape["DEF"]
      [] pos = "FWD" -> SquadShape["GK"] + SquadShape["DEF"] + SquadShape["MID"]

Name(id) == ToString(id)

\* effective_pts = projected_pts * (xMin / 90)
EffectivePts(projected_pts, xmin) == (projected_pts * xmin) \div 90

\* a squad player of the data file: a good one projects a point, the others none
DataPlayer(id, good) ==
    [player_id |-> id, name |-> Name(id), position |-> PositionOf(id),
     projected_pts |-> IF good THEN 10 ELSE 0, xmin |-> 81,
     effective_pts |-> EffectivePts(IF good THEN 10 ELSE 0, 81),
     bench_order |-> 0]

\* the players of one position, the first `good` of them good ones
DataGroup(pos, good) ==
    [i \in 1..SquadShape[pos] |-> DataPlayer(Offset(pos) + i, i <= good)]

(***************************************************************************)
(* Formations.                                                             *)
(***************************************************************************)
Formation(d, m, f) == [def |-> d, mid |-> m, fwd |-> f]

\* the engine's legal formations, in its order
VALID_FORMATIONS ==
    << Formation(3, 4, 3), Formation(3, 5, 2), Formation(4, 3, 3), Formation(4, 4, 2),
       Formation(4, 5, 1), Formation(5, 2, 3), Formation(5, 3, 2), Formation(5, 4, 1) >>

\* the list with a two-defender formation at its head
formationsWithTwoDefenders ==
    << Formation(2, 5, 3), Formation(3, 5, 2), Formation(3, 4, 3), Formation(4, 4, 2),
       Formation(4, 3, 3), Formation(5, 3, 2), Formation(5, 4, 1) >>

\* the formations calculateOptimalXI tries, in its order
formations ==
    << Formation(3, 5, 2), Formation(3, 4, 3), Formation(4, 4, 2),
       Formation(4, 3, 3), Formation(5, 3, 2), Formation(5, 4, 1) >>

\* byPosition.DEF.length >= f.def && byPosition.MID.length >= f.mid && ...
canFill(byPos, f) ==
    /\ Len(byPos["DEF"]) >= f.def
    /\ Len(byPos["MID"]) >= f.mid
    /\ Len(byPos["FWD"]) >= f.fwd

\* the sum of the top-N effective points of the outfield positions
formationTotal(byPos, f) ==
    SumEff(Slice(byPos["DEF"], 0, f.def))
    + SumEff(Slice(byPos["MID"], 0, f.mid))
    + SumEff(Slice(byPos["FWD"], 0, f.fwd))

\* if (total > bestTotal) { bestTotal = total; bestFormation = f; }
isBetter(total, bestTotal) == total > bestTotal

RECURSIVE scanFormations(_, _, _, _)
\* formations.forEach(f => ...) from the i-th on, best = the pair kept so far
scanFormations(fs, i, byPos, best) ==
    IF i > Len(fs) THEN best
    ELSE LET f == fs[i]
             total == formationTotal(byPos, f)
         IN scanFormations(fs, i + 1, byPos,
                IF canFill(byPos, f) /\ isBetter(total, best.bestTotal)
                THEN [bestFormation |-> f, bestTotal |-> total]
                ELSE best)

\* let bestFormation = formations[0]; let bestTotal = 0; then the scan
bestFormation(byPos) ==
    scanFormations(formations, 1, byPos,
                   [bestFormation |-> formations[1], bestTotal |-> 0]).bestFormation

\* bench.forEach((p, i) => p.bench_order = i + 1)
assignBenchOrder(bench) ==
    [i \in 1..Len(bench) |-> [bench[i] EXCEPT !.bench_order = i]]

(***************************************************************************)
(* The data file: the engine's Formation Plan for the gameweek.            *)
(***************************************************************************)
\* the engine's choice: the legal formation of the largest total, the first
\* found among equals
EngineFormation(byPos) ==
    scanFormations(VALID_FORMATIONS, 1, byPos,
                   [bestFormation |-> VALID_FORMATIONS[1], bestTotal |-> -1]).bestFormation

\* the gameweek record for a squad with the given number of good players per
\* position: the starting 11 by position, the bench by descending effective points
GameweekData(gk, d, m, f) ==
    LET byPos == ("GK" :> DataGroup("GK", gk)) @@ ("DEF" :> DataGroup("DEF", d))
                 @@ ("MID" :> DataGroup("MID", m)) @@ ("FWD" :> DataGroup("FWD", f))
        ef == EngineFormation(byPos)
    IN [starting_xi |->
            Slice(byPos["GK"], 0, 1) \o Slice(byPos["DEF"], 0, ef.def)
            \o Slice(byPos["MID"], 0, ef.mid) \o Slice(byPos["FWD"], 0, ef.fwd),
        bench |->
            assignBenchOrder(sortByEffectivePts(
                SliceFrom(byPos["GK"], 1) \o SliceFrom(byPos["DEF"], ef.def)
                \o SliceFrom(byPos["MID"], ef.mid) \o SliceFrom(byPos["FWD"], ef.fwd)))]

(***************************************************************************)
(* projections.json and recommendations.json.                              *)
(***************************************************************************)
\* Object.values(projections.top_by_position).flat(): the players a transfer
\* may bring in that the projections file lists
allProjections ==
    << [player_id |-> 101, name |-> Name(101), next_gw_pts |-> 20, next_4gw_pts |-> 200],
       [player_id |-> 102, name |-> Name(102), next_gw_pts |-> 10, next_4gw_pts |-> 150],
       [player_id |-> 103, name |-> Name(103), next_gw_pts |-> 0, next_4gw_pts |-> 60] >>

\* an alternative incoming player of a recommendation
Alternative(id, cost, gain) ==
    [player_id |-> id, name |-> Name(id), cost |-> cost, gain_4gw |-> gain]

\* a transfer recommendation; an absent alternative tier is <<>>
Recommendation(out, in, cost, gain, budget, value, premium) ==
    [out_id |-> out, out_name |-> Name(out), in_id |-> in, in_name |-> Name(in),
     in_cost |-> cost, gain_4gw |-> gain,
     alternatives |-> [budget |-> budget, value |-> value, premium |-> premium]]

\* recommendations.transfer_recommendations: the last midfielder for the best
\* projected player, the first defender and the last forward for the next best;
\* player 104 is not among the projections file's top players
transfer_recommendations ==
    SubSeq(<< Recommendation(12, 101, 80, 60, <<Alternative(104, 45, 20)>>,
                             <<Alternative(102, 60, 40)>>, <<>>),
              Recommendation(3, 102, 60, 40, <<Alternative(103, 40, 10)>>, <<>>,
                             <<Alternative(101, 80, 60)>>),
              Recommendation(15, 102, 60, 30, <<>>, <<Alternative(103, 40, 10)>>, <<>>) >>,
           1, NumRecs)

\* the alternatives a recommendation's card offers
alternativesOf(transfer) ==
    {a \in {transfer.alternatives.budget, transfer.alternatives.value,
            transfer.alternatives.premium} : a # <<>>}

(***************************************************************************)
(* App: the planned-transfer list.                                         *)
(***************************************************************************)
\* plannedTransfers.some(t => t.out_id === transfer.out_id)
isApplied(transfer) ==
    \E i \in 1..Len(plannedTransfers) : plannedTransfers[i].out_id = transfer.out_id

\* plannedTransfers.some(t => t.in_id === transfer.out_id)
isIncoming(transfer) ==
    \E i \in 1..Len(plannedTransfers) : plannedTransfers[i].in_id = transfer.out_id

\* the transfer appended without a look at the list
appendTransfer(transfer) == Append(plannedTransfers, transfer)

\* the list handleTryTransfer sets
tryTransfer(transfer) ==
    IF isApplied(transfer) THEN plannedTransfers
    ELSE IF isIncoming(transfer) THEN plannedTransfers
    ELSE Append(plannedTransfers, transfer)

\* the transfer handleTryAlternative hands to onTryTransfer
altTransfer(transfer, alt) ==
    [transfer EXCEPT !.in_id = alt.player_id, !.in_name = alt.name,
                     !.in_cost = alt.cost, !.gain_4gw = alt.gain_4gw]

\* the list without the transfers that bring in the transfer's incoming player
removeByIncoming(transfer) ==
    SelectSeq(plannedTransfers, LAMBDA t : t.in_id # transfer.in_id)

\* plannedTransfers.filter(t => t.out_id !== transfer.out_id)
removeTransfer(transfer) ==
    SelectSeq(plannedTransfers, LAMBDA t : t.out_id # transfer.out_id)

(***************************************************************************)
(* StartingXIView: the lineup shown.                                       *)
(***************************************************************************)
\* { ...p, isNew: false }
notNew(p) ==
    [player_id |-> p.player_id, name |-> p.name, position |-> p.position,
     projected_pts |-> p.projected_pts, xmin |-> p.xmin,
     effective_pts |-> p.effective_pts, bench_order |-> p.bench_order,
     isNew |-> FALSE]

\* (incomingPlayer.next_gw_pts || 0) * 0.9
incomingEffectivePts(next_gw_pts) == (next_gw_pts * 9) \div 10

\* the squad slot of `player` taken by the incoming player of `transfer`
incoming(player, transfer, incomingPlayer) ==
    [player_id |-> player.player_id, name |-> transfer.in_name,
     position |-> player.position,
     projected_pts |-> incomingPlayer.next_gw_pts, xmin |-> 80,
     effective_pts |-> incomingEffectivePts(incomingPlayer.next_gw_pts),
     bench_order |-> player.bench_order, isNew |-> TRUE]

\* Array.prototype.find: <<>> or <<the first element of s at an index in hits>>
find(s, hits) ==
    IF hits = {} THEN <<>>
    ELSE <<s[CHOOSE i \in hits : \A j \in hits : i <= j]>>

\* [...currentData.starting_xi, ...currentData.bench]
allSquadPlayers == currentData.starting_xi \o currentData.bench

\* one squad player after the planned transfers
applyTransfers(player) ==
    LET transfer == find(plannedTransfers,
                          {i \in 1..Len(plannedTransfers) :
                              plannedTransfers[i].out_name = player.name})
    IN IF transfer = <<>> THEN notNew(player)
       ELSE LET incomingPlayer ==
                    find(allProjections,
                         {i \in 1..Len(allProjections) :
                             allProjections[i].player_id = transfer[1].in_id})
            IN IF incomingPlayer = <<>> THEN notNew(player)
               ELSE incoming(player, transfer[1], incomingPlayer[1])

newSquad == [i \in 1..Len(allSquadPlayers) |-> applyTransfers(allSquadPlayers[i])]

\* the new squad grouped by position, each group sorted by effective_pts
byPosition ==
    LET squad == newSquad
    IN [pos \in {"GK", "DEF", "MID", "FWD"} |->
          sortByEffectivePts(SelectSeq(squad, LAMBDA p : p.position = pos))]

\* what byPosition.GK[0] gives for a squad without a goalkeeper
undefined ==
    [player_id |-> 0, name |-> "undefined", position |-> "undefined",
     projected_pts |-> 0, xmin |-> 0, effective_pts |-> 0, bench_order |-> 0,
     isNew |-> FALSE]

\* both goalkeepers pushed to the XI
buildXIWithBothKeepers(byPos, f) ==
    Slice(byPos["GK"], 0, 2) \o Slice(byPos["DEF"], 0, f.def)
    \o Slice(byPos["MID"], 0, f.mid) \o Slice(byPos["FWD"], 0, f.fwd)

\* xi.push(byPosition.GK[0]) and the three slices of the best formation
buildXI(byPos, f) ==
    (IF byPos["GK"] = <<>> THEN <<undefined>> ELSE <<byPos["GK"][1]>>)
    \o Slice(byPos["DEF"], 0, f.def)
    \o Slice(byPos["MID"], 0, f.mid) \o Slice(byPos["FWD"], 0, f.fwd)

\* the second goalkeeper left off the bench
buildBenchWithoutKeeper(byPos, f) ==
    SliceFrom(byPos["DEF"], f.def)
    \o SliceFrom(byPos["MID"], f.mid) \o SliceFrom(byPos["FWD"], f.fwd)

\* if (byPosition.GK[1]) bench.push(byPosition.GK[1]) and the remaining slices
buildBench(byPos, f) ==
    Slice(byPos["GK"], 1, 2) \o SliceFrom(byPos["DEF"], f.def)
    \o SliceFrom(byPos["MID"], f.mid) \o SliceFrom(byPos["FWD"], f.fwd)

\* the bench numbered as it was pushed, unsorted
orderBenchUnsorted(bench) == assignBenchOrder(bench)

\* bench.sort(...); bench.forEach((p, i) => p.bench_order = i + 1)
orderBench(bench) == assignBenchOrder(sortByEffectivePts(bench))

\* the recomputation runs whenever transfers are planned
recomputesInEitherMode == Len(plannedTransfers) > 0

\* the recomputation runs: transfers are planned and the planned view is chosen
recomputes == Len(plannedTransfers) > 0 /\ viewMode = "planned"

calculateOptimalXI ==
    IF ~recomputes
    THEN [xi |-> [i \in 1..Len(currentData.starting_xi) |->
                    notNew(currentData.starting_xi[i])],
          bench |-> [i \in 1..Len(currentData.bench) |->
                    notNew(currentData.bench[i])]]
    ELSE LET byPos == byPosition
             f == bestFormation(byPos)
         IN [xi |-> buildXI(byPos, f), bench |-> orderBench(buildBench(byPos, f))]

displayXI == calculateOptimalXI.xi

displayBench == calculateOptimalXI.bench

\* displayXI.reduce((sum, p) => sum + (p.effective_pts || 0), 0) reads a
\* property of undefined: the render throws a TypeError
raises == \E i \in 1..Len(displayXI) : displayXI[i] = undefined

\* [...displayXI].sort(...)
sortedByPts(xi) == sortByEffectivePts(xi)

\* the first of the XI taken for captain, whatever its points
firstOfXI == displayXI[1]

\* sortedByPts[0] || displayXI[0]
displayCaptain == sortedByPts(displayXI)[1]

\* sortedByPts[1] || displayXI[1]
displayVice == sortedByPts(displayXI)[2]

(***************************************************************************)
(* The app.                                                                *)
(***************************************************************************)
Tabs == {"overview", "planner", "xi"}

GoodCounts ==
    {c \in [{"GK", "DEF", "MID", "FWD"} -> 0..5] :
        \A pos \in DOMAIN c : c[pos] <= SquadShape[pos]}

\* the data files the app fetches
Datasets == {"recommendations", "my_team", "projections", "starting_xi"}

\* the parsed body of a data file
Payload(d) == <<d>>

\* the state the initial load leaves when every file is served
Loaded ==
    /\ loading = FALSE
    /\ responses = [d \in Datasets |-> "ok"]
    /\ datasets = [d \in Datasets |-> Payload(d)]

\* the components of the engine at rest
EngineIdle ==
    /\ xminIn = <<>> /\ xminOut = <<>>
    /\ recIn = <<>> /\ recOut = <<>>
    /\ projIn = <<>> /\ projOut = <<>>

\* the app as the load leaves it, but for the data of the gameweek
Mounted ==
    /\ Loaded
    /\ recommendations = transfer_recommendations
    /\ plannedTransfers = <<>>
    /\ activeTab = "overview"
    /\ viewMode = "current"
    /\ effectPending = FALSE
    /\ renders = <<>>

Init ==
    /\ \E c \in GoodCounts :
          currentData = GameweekData(c["GK"], c["DEF"], c["MID"], c["FWD"])
    /\ Mounted
    /\ EngineIdle

\* "Try This" on a recommendation's card, shown while it is not applied
handleTryTransfer(i) ==
    /\ activeTab = "overview"
    /\ ~isApplied(recommendations[i])
    /\ plannedTransfers' = tryTransfer(recommendations[i])
    /\ UNCHANGED <<loadVars, recommendations, currentData, activeTab, viewMode,
                   effectPending, renders, engineVars>>

\* "Try" on one of the alternatives of a recommendation's card
handleTryAlternative(i, alt) ==
    /\ activeTab = "overview"
    /\ plannedTransfers' = tryTransfer(altTransfer(recommendations[i], alt))
    /\ UNCHANGED <<loadVars, recommendations, currentData, activeTab, viewMode,
                   effectPending, renders, engineVars>>

\* "Remove" on an applied card of the overview, or on a row of the planner
handleRemoveTransfer(i) ==
    /\ activeTab \in {"overview", "planner"}
    /\ isApplied(recommendations[i])
    /\ plannedTransfers' = removeTransfer(recommendations[i])
    /\ UNCHANGED <<loadVars, recommendations, currentData, activeTab, viewMode,
                   effectPending, renders, engineVars>>

\* "Clear all" of the planner, shown while transfers are planned
handleClearAllTransfers ==
    /\ activeTab = "planner"
    /\ Len(plannedTransfers) > 0
    /\ plannedTransfers' = <<>>
    /\ UNCHANGED <<loadVars, recommendations, currentData, activeTab, viewMode,
                   effectPending, renders, engineVars>>

\* a click on a tab; StartingXIView mounts with viewMode 'current' and its
\* effects to run, and loses its state when another tab is shown
setActiveTab(tab) ==
    /\ ~effectPending
    /\ tab # activeTab
    /\ activeTab' = tab
    /\ viewMode' = "current"
    /\ effectPending' = (tab = "xi")
    /\ renders' = <<>>
    /\ UNCHANGED <<loadVars, recommendations, currentData, plannedTransfers, engineVars>>

\* the effect on plannedTransfers.length, run after the first render
autoSwitchEffect ==
    /\ activeTab = "xi"
    /\ effectPending
    /\ viewMode' = IF Len(plannedTransfers) > 0 /\ viewMode = "current"
                    THEN "planned" ELSE viewMode
    /\ effectPending' = FALSE
    /\ renders' = <<>>
    /\ UNCHANGED <<loadVars, recommendations, currentData, plannedTransfers,
                   activeTab, engineVars>>

\* an effect that runs after every render
runsAfterEveryRender(before, after) == TRUE

\* the effect's dependency list [plannedTransfers.length]: after a render of
\* the mounted view the effect runs again only if the length has changed
dependencyChanged(before, after) == before # after

\* the Current / Planned toggle, shown while transfers are planned
setViewMode(mode) ==
    /\ activeTab = "xi"
    /\ ~effectPending
    /\ Len(plannedTransfers) > 0
    /\ viewMode' = mode
    /\ UNCHANGED <<loadVars, recommendations, currentData, plannedTransfers,
                   activeTab, engineVars>>
    /\ effectPending' = dependencyChanged(Len(plannedTransfers), Len(plannedTransfers'))
    /\ renders' = <<>>

Next ==
    \/ \E i \in 1..Len(recommendations) : handleTryTransfer(i)
    \/ \E i \in 1..Len(recommendations) :
          \E a \in alternativesOf(recommendations[i]) :
             handleTryAlternative(i, a[1])
    \/ \E i \in 1..Len(recommendations) : handleRemoveTransfer(i)
    \/ handleClearAllTransfers
    \/ \E tab \in Tabs : setActiveTab(tab)
    \/ autoSwitchEffect
    \/ \E mode \in {"current", "planned"} : setViewMode(mode)

Spec == Init /\ [][Next]_vars

\* React runs the effects of a mounted view after its render
SpecView == Init /\ [][Next]_vars /\ WF_vars(autoSwitchEffect)

\* the Starting XI view has just been opened with planned transfers
openedWithTransfers ==
    activeTab = "xi" /\ effectPending /\ Len(plannedTransfers) > 0

\* the view stays open on 'current' with nothing left to run, the number of
\* planned transfers stays, and the user does not select Planned
leftOnCurrent ==
    /\ activeTab = "xi" /\ activeTab' = "xi"
    /\ viewMode = "current" /\ ~effectPending
    /\ Len(plannedTransfers') = Len(plannedTransfers)
    /\ ~setViewMode("planned")

RenderCounts ==
    {c \in GoodCounts : c["GK"] \in {0, 1} /\ c["DEF"] \in {0, 4}
                        /\ c["MID"] \in {0, 4} /\ c["FWD"] \in {0, 2}}

(***************************************************************************)
(* The app on a data file whose squad is short of players at a position.   *)
(***************************************************************************)
\* the squad's players of one position: the first n of the position's slots
ShortGroup(pos, n) == [i \in 1..n |-> DataPlayer(Offset(pos) + i, TRUE)]

\* the gameweek record of a squad of the given numbers of players: the first 11
\* listed as starting, the others as bench
ShortData(shape) ==
    LET all == ShortGroup("GK", shape["GK"]) \o ShortGroup("DEF", shape["DEF"])
               \o ShortGroup("MID", shape["MID"]) \o ShortGroup("FWD", shape["FWD"])
    IN [starting_xi |-> Slice(all, 0, 11),
        bench |-> assignBenchOrder(SliceFrom(all, Min(11, Len(all))))]

\* no formation calculateOptimalXI tries can be filled
infeasible(byPos) == \A i \in 1..Len(formations) : ~canFill(byPos, formations[i])

\* squads with no or both goalkeepers, two or five defenders, two or five
\* midfielders, no or three forwards, short at some outfield position
ShortShapes ==
    {c \in [{"GK", "DEF", "MID", "FWD"} -> 0..5] :
        /\ c["GK"] \in {0, 2} /\ c["DEF"] \in {2, 5}
        /\ c["MID"] \in {2, 5} /\ c["FWD"] \in {0, 3}
        /\ (c["DEF"] = 2 \/ c["MID"] = 2 \/ c["FWD"] = 0)}

InitShort ==
    /\ \E c \in ShortShapes : currentData = ShortData(c)
    /\ Mounted
    /\ EngineIdle

SpecShort == InitShort /\ [][Next]_vars

(***************************************************************************)
(* The app on recommendations of which one sells the player another buys.  *)
(***************************************************************************)
\* recommendations.transfer_recommendations: the first buys player 101, the
\* second sells him
chained_recommendations ==
    << Recommendation(12, 101, 80, 60, <<Alternative(104, 45, 20)>>, <<>>, <<>>),
       Recommendation(101, 102, 60, 20, <<>>, <<Alternative(103, 40, 10)>>, <<>>) >>

InitChain ==
    /\ \E c \in RenderCounts :
          currentData = GameweekData(c["GK"], c["DEF"], c["MID"], c["FWD"])
    /\ Loaded
    /\ recommendations = chained_recommendations
    /\ plannedTransfers = <<>>
    /\ activeTab = "overview"
    /\ viewMode = "current"
    /\ effectPending = FALSE
    /\ renders = <<>>
    /\ EngineIdle

SpecChain == InitChain /\ [][Next]_vars

(***************************************************************************)
(* StartingXIView rendered again and again from the same inputs.           *)
(***************************************************************************)
\* the most renders kept from the same inputs
MaxRenders == 2

\* every squad slot's record of the new squad being the input's own object
everySlotShared == SquadIds

\* the squad slots whose record of the new squad is the input's own object:
\* none, every branch of the map callbacks returns a new object literal
sharedWithInput == {}

\* the input's records after bench.forEach((p, i) => p.bench_order = i + 1):
\* the write reaches an input record when the bench holds that same object
writtenThrough(records, bench) ==
    [i \in 1..Len(records) |->
        LET at == {j \in 1..Len(bench) : bench[j].player_id = records[i].player_id}
        IN IF records[i].player_id \in sharedWithInput /\ at # {}
           THEN [records[i] EXCEPT !.bench_order = CHOOSE j \in at : TRUE]
           ELSE records[i]]

\* the recomputed lineup stored over the gameweek's record
lineupWrittenBack ==
    IF ~recomputes THEN currentData
    ELSE [starting_xi |-> displayXI, bench |-> displayBench]

\* the gameweek's record as calculateOptimalXI and the captain selection leave it
currentDataAfterRecompute ==
    IF ~recomputes THEN currentData
    ELSE LET bench == displayBench
         IN [starting_xi |-> writtenThrough(currentData.starting_xi, bench),
             bench |-> writtenThrough(currentData.bench, bench)]

\* a render of StartingXIView: the lineup, the captain and the vice-captain
recompute ==
    /\ activeTab = "xi"
    /\ Len(renders) < MaxRenders
    /\ renders' = Append(renders, [xi |-> displayXI, bench |-> displayBench,
                                    captain |-> displayCaptain, vice |-> displayVice])
    /\ currentData' = currentDataAfterRecompute
    /\ UNCHANGED <<loadVars, recommendations, plannedTransfers, activeTab, viewMode,
                   effectPending, engineVars>>

InitRender ==
    /\ \E c \in RenderCounts :
          currentData = GameweekData(c["GK"], c["DEF"], c["MID"], c["FWD"])
    /\ Mounted
    /\ EngineIdle

NextRender == Next \/ recompute

SpecRender == InitRender /\ [][NextRender]_vars

(***************************************************************************)
(* The Starting-XI recomputation: what is shown.                           *)
(***************************************************************************)
\* the Starting XI tab is shown, so a lineup is rendered
shown == activeTab = "xi"

\* the lineup rendered is one calculateOptimalXI recomputed
optimized == shown /\ recomputes

Range(s) == {s[i] : i \in 1..Len(s)}

countOf(s, pos) == Cardinality({i \in 1..Len(s) : s[i].position = pos})

\* the (defender, midfielder, forward) counts of a lineup
formationOf(xi) == Formation(countOf(xi, "DEF"), countOf(xi, "MID"), countOf(xi, "FWD"))

\* the place of a formation in the engine's list
listedAt(f) == CHOOSE i \in 1..Len(VALID_FORMATIONS) : VALID_FORMATIONS[i] = f

\* the legal formations a squad can fill
fillable(byPos) == {f \in Range(VALID_FORMATIONS) : canFill(byPos, f)}

\* the total of a formation's lineup, its goalkeeper included
lineupTotal(byPos, f) == SumEff(Slice(byPos["GK"], 0, 1)) + formationTotal(byPos, f)

isNonIncreasing(s) ==
    \A i \in 1..(Len(s) - 1) : s[i].effective_pts >= s[i + 1].effective_pts

hasNew(s) == \E i \in 1..Len(s) : s[i].isNew

\* C1: every lineup the optimizer produces has exactly 11 starters, exactly one
\* of them a goalkeeper.
C1_ElevenStartersOneKeeper ==
    optimized => LET xi == displayXI
                 IN Len(xi) = 11 /\ countOf(xi, "GK") = 1

C1_Witness ==
    /\ optimized
    /\ hasNew(displayXI)
    /\ countOf(displayBench, "GK") = 1

\* C2: the formation of every produced lineup is one of the eight legal
\* formations, and its three counts plus one goalkeeper sum to 11.
C2_FormationIsLegal ==
    optimized =>
        LET f == formationOf(displayXI)
        IN /\ f \in Range(VALID_FORMATIONS)
           /\ f.def + f.mid + f.fwd + 1 = 11

C2_Witness ==
    /\ optimized
    /\ LET xi == displayXI
       IN formationOf(xi) = Formation(5, 4, 1) /\ hasNew(xi)

\* C3: the chosen lineup's total effective points is the maximum over all the
\* legal formations the squad can fill: no fillable legal formation has a
\* strictly higher total.
C3_ChosenTotalIsMaximum ==
    optimized =>
        LET byPos == byPosition
            chosen == SumEff(displayXI)
        IN \A f \in fillable(byPos) : lineupTotal(byPos, f) <= chosen

\* C4: when fillable formations tie for the maximum total, the one chosen is the
\* first of them in the order 3-4-3, 3-5-2, 4-3-3, 4-4-2, 4-5-1, 5-2-3, 5-3-2,
\* 5-4-1.
C4_FirstListedWinsTies ==
    optimized =>
        LET byPos == byPosition
            xi == displayXI
            chosen == SumEff(xi)
            at == listedAt(formationOf(xi))
        IN (\A f \in fillable(byPos) : lineupTotal(byPos, f) <= chosen) =>
              \A f \in fillable(byPos) :
                 lineupTotal(byPos, f) = chosen => at <= listedAt(f)

\* the same squad slot holding the same player with the same points
samePlayer(p, q) ==
    /\ p.player_id = q.player_id
    /\ p.name = q.name
    /\ p.position = q.position
    /\ p.effective_pts = q.effective_pts
    /\ p.isNew = q.isNew

C6_BenchOrdered ==
    optimized =>
        LET bench == displayBench
        IN /\ isNonIncreasing(bench)
           /\ \A i \in 1..Len(bench) : bench[i].bench_order = i

C6_Witness ==
    /\ optimized
    /\ LET byPos == byPosition
           bench == displayBench
       IN /\ ~isNonIncreasing(buildBench(byPos, bestFormation(byPos)))
          /\ bench[1].effective_pts > bench[Len(bench)].effective_pts

C8_EffectivePtsFormula ==
    shown =>
        \A p \in Range(displayXI) \cup Range(displayBench) :
            p.effective_pts * 90 = p.projected_pts * p.xmin

(***************************************************************************)
(* The engine's Expected-Minutes Estimator.  An estimate is the rational   *)
(* num / den minutes.                                                      *)
(***************************************************************************)
\* the most starts of a season drawn
MaxStarts == 2

\* the most season minutes drawn, in tens of minutes
MaxTenMinutes == 20

\* a full match
FullMatch == 90

\* rotation_factor, in hundredths
rotation_factor(rotation_risk) ==
    CASE rotation_risk = "high" -> 65
      [] rotation_risk = "medium" -> 80
      [] OTHER -> 100

\* form_factor, in hundredths
form_factor(form_trend) ==
    CASE form_trend = "hot" -> 105
      [] form_trend = "cold" -> 90
      [] OTHER -> 100

\* base = min(90, season_minutes / max(1, season_starts))
base_mins(player) ==
    LET starts == Max(1, player.season_starts)
    IN IF player.season_minutes >= FullMatch * starts
       THEN [num |-> FullMatch, den |-> 1]
       ELSE [num |-> player.season_minutes, den |-> starts]

\* base_mins * availability * rotation_factor * form_factor, availability being
\* chance_of_playing / 100
xMinProduct(player) ==
    LET base == base_mins(player)
    IN [num |-> base.num * player.chance_of_playing
                * rotation_factor(player.rotation_risk) * form_factor(player.form_trend),
        den |-> base.den * 100 * 100 * 100]

\* the product left as it is
unclamped(x) == x

\* the result clamped to [0, 90]
clamp(x) == [num |-> Max(0, Min(x.num, FullMatch * x.den)), den |-> x.den]

xMin(player) == clamp(xMinProduct(player))

EstimatorInputs ==
    [season_minutes : {10 * k : k \in 0..MaxTenMinutes},
     season_starts : 0..MaxStarts,
     chance_of_playing : {0, 25, 50, 75, 100},
     rotation_risk : {"none", "medium", "high"},
     form_trend : {"hot", "cold", "neutral"}]

\* the app at rest, for the specifications of the engine's components
AppIdle ==
    /\ currentData = GameweekData(0, 0, 0, 0)
    /\ Mounted

InitXmin ==
    /\ AppIdle
    /\ \E player \in EstimatorInputs : xminIn = <<player>>
    /\ xminOut = <<>>
    /\ recIn = <<>> /\ recOut = <<>>
    /\ projIn = <<>> /\ projOut = <<>>

\* the estimator runs on the player
EstimateXmin ==
    /\ xminOut = <<>>
    /\ xminOut' = <<xMin(xminIn[1])>>
    /\ UNCHANGED <<appVars, xminIn, recVars, projVars>>

NextXmin == EstimateXmin

SpecXmin == InitXmin /\ [][NextXmin]_vars

C16_InfeasibleSquadGivesNoLineup ==
    (optimized /\ infeasible(byPosition)) =>
        /\ ~raises
        /\ displayXI = <<>>
        /\ displayBench = <<>>

\* no two planned transfers sell the same player
distinctOutgoing ==
    \A i, j \in 1..Len(plannedTransfers) :
        i # j => plannedTransfers[i].out_id # plannedTransfers[j].out_id

\* a Try, of the recommendation or of one of its alternatives, for an outgoing
\* player who has a planned transfer
tryOfPlanned ==
    \E i \in 1..Len(recommendations) :
        /\ isApplied(recommendations[i])
        /\ \/ plannedTransfers' = tryTransfer(recommendations[i])
           \/ \E a \in alternativesOf(recommendations[i]) : handleTryAlternative(i, a[1])

\* C17: after any sequence of Try, Remove and Clear-all, no two planned
\* transfers have the same outgoing player, and a Try for an outgoing player
\* who has a planned transfer, one of an alternative included, leaves the list
\* as it is.
C17_OneTransferPerOutgoing ==
    /\ []distinctOutgoing
    /\ [][tryOfPlanned => plannedTransfers' = plannedTransfers]_vars

\* two transfers are planned and the overview offers an alternative for one of
\* the two outgoing players, another player than the one planned
C17_Witness ==
    /\ activeTab = "overview"
    /\ Len(plannedTransfers) = 2
    /\ \E i \in 1..Len(recommendations) :
          \E a \in alternativesOf(recommendations[i]) :
             \E k \in 1..Len(plannedTransfers) :
                /\ plannedTransfers[k].out_id = recommendations[i].out_id
                /\ plannedTransfers[k].in_id # a[1].player_id

MaxBankSteps == 2

\* the quality floor for an incoming player's horizon projection
MIN_BUY_PROJECTION == 15

\* the smallest horizon gain recommended
MIN_GAIN_THRESHOLD == 3

\* the most players of one club in a squad
TeamLimit == 3

\* hit_threshold_pts: the horizon gain a hit has to exceed
HIT_THRESHOLD_PTS == 4

\* the fixed cost of an extra transfer
HitCost == 4

\* the squad slots that may hold a player of club X
XSlots == {3, 4, 8, 9, 13}

\* the starters of the squad: the first of the goalkeepers, four defenders, four
\* midfielders and two forwards
Multiplier(id) ==
    IF id \in {2, 7, 12, 15} THEN 0 ELSE IF id = 13 THEN 2 ELSE 1

\* a squad whose players of club X are those of `ofX`; the others come three by
\* three from five further clubs
RecSquad(ofX) ==
    [id \in SquadIds |->
        [player_id |-> id, position |-> PositionOf(id),
         team |-> IF id \in ofX THEN "X" ELSE "T" \o ToString((id - 1) \div TeamLimit),
         price |-> 50, multiplier |-> Multiplier(id),
         projected_4gw |-> IF id = 14 THEN 16 ELSE 10]]

Candidate(id, pos, team, price, projected) ==
    [player_id |-> id, position |-> pos, team |-> team, price |-> price,
     projected_4gw |-> projected]

\* the candidate pool: the best of each position plays for club X
CandidatePool ==
    << Candidate(201, "MID", "X", 60, 30), Candidate(202, "MID", "Y", 55, 25),
       Candidate(203, "DEF", "X", 50, 22), Candidate(204, "DEF", "Z", 45, 18),
       Candidate(205, "FWD", "X", 55, 28), Candidate(206, "FWD", "Y", 50, 12),
       Candidate(207, "FWD", "T0", 50, 20), Candidate(208, "GK", "X", 50, 16),
       Candidate(209, "FWD", "Z", 55, 19) >>

teamCount(squad, team) == Cardinality({i \in DOMAIN squad : squad[i].team = team})

\* the squad with the outgoing player's slot given to the incoming player
squadAfter(squad, out, in) ==
    [i \in DOMAIN squad |->
        IF squad[i].player_id = out.player_id
        THEN [squad[i] EXCEPT !.player_id = in.player_id, !.team = in.team,
                              !.price = in.price, !.projected_4gw = in.projected_4gw]
        ELSE squad[i]]

\* the club limit left unchecked
teamLimitIgnored(squad, out, in) == TRUE

\* resulting club count <= 3 for any club
teamLimitOk(squad, out, in) ==
    \A i \in DOMAIN squad :
        teamCount(squadAfter(squad, out, in), squadAfter(squad, out, in)[i].team) <= TeamLimit

\* an incoming candidate the constraints allow for the outgoing player
isAllowed(squad, bank, out, in) ==
    /\ \A i \in DOMAIN squad : squad[i].player_id # in.player_id
    /\ in.position = out.position
    /\ in.price <= out.price + bank
    /\ in.projected_4gw >= MIN_BUY_PROJECTION
    /\ in.projected_4gw - out.projected_4gw >= MIN_GAIN_THRESHOLD
    /\ teamLimitOk(squad, out, in)

\* a gain that reaches the threshold taken for worth a hit
worthHitAtThreshold(gain) == gain >= HIT_THRESHOLD_PTS

\* worth a hit: the horizon gain exceeds the threshold
worth_hit(gain) == gain > HIT_THRESHOLD_PTS

\* net value = gain - 4 when a hit is taken
hit_value(gain) == gain - HitCost

\* ties broken by higher horizon gain, then lower price
isPreferred(a, b) ==
    \/ a.projected_4gw > b.projected_4gw
    \/ a.projected_4gw = b.projected_4gw /\ a.price < b.price
    \/ a.projected_4gw = b.projected_4gw /\ a.price = b.price /\ a.player_id <= b.player_id

\* the recommendation for one outgoing player: <<>> when no candidate is allowed
recommendFor(squad, bank, out) ==
    LET allowed == {c \in Range(CandidatePool) : isAllowed(squad, bank, out, c)}
    IN IF allowed = {} THEN <<>>
       ELSE LET in == CHOOSE c \in allowed : \A d \in allowed : isPreferred(c, d)
            IN <<[out_id |-> out.player_id, out_team |-> out.team,
                  in_id |-> in.player_id, in_team |-> in.team,
                  in_cost |-> in.price,
                  gain_4gw |-> in.projected_4gw - out.projected_4gw,
                  worth_hit |-> worth_hit(in.projected_4gw - out.projected_4gw),
                  hit_value |-> hit_value(in.projected_4gw - out.projected_4gw)]>>

\* every squad player an outgoing candidate, whatever the policy
everyoneIsCandidate(player, allFifteen) == TRUE

\* only current starters or, in the extended policy, all 15 are outgoing candidates
isOutgoingCandidate(player, allFifteen) == allFifteen \/ player.multiplier > 0

RECURSIVE recommendFrom(_, _, _, _)
\* the recommendations for the squad's players from the i-th on
recommendFrom(squad, bank, allFifteen, i) ==
    IF i > Len(squad) THEN <<>>
    ELSE (IF isOutgoingCandidate(squad[i], allFifteen)
          THEN recommendFor(squad, bank, squad[i]) ELSE <<>>)
         \o recommendFrom(squad, bank, allFifteen, i + 1)

recommendTransfers(input) ==
    recommendFrom(input.squad, input.bank, input.allFifteen, 1)

InitRec ==
    /\ AppIdle
    /\ xminIn = <<>> /\ xminOut = <<>>
    /\ projIn = <<>> /\ projOut = <<>>
    /\ \E ofX \in {S \in SUBSET XSlots : Cardinality(S) <= TeamLimit},
          steps \in 0..MaxBankSteps, allFifteen \in BOOLEAN :
          recIn = <<[squad |-> RecSquad(ofX), bank |-> 5 * steps,
                     allFifteen |-> allFifteen]>>
    /\ recOut = <<>>

\* the recommender runs on the squad
RecommendTransfers ==
    /\ recOut = <<>>
    /\ recOut' = <<recommendTransfers(recIn[1])>>
    /\ UNCHANGED <<appVars, xminVars, recIn, projVars>>

NextRec == RecommendTransfers

SpecRec == InitRec /\ [][NextRec]_vars

\* the squad player a recommendation sells, and the candidate it buys
outgoingOf(squad, r) == CHOOSE i \in DOMAIN squad : squad[i].player_id = r.out_id

incomingOf(r) == CHOOSE c \in Range(CandidatePool) : c.player_id = r.in_id

\* C10: no transfer recommendation produces a squad with more than 3 players of
\* one club: with exactly 3 players of club X in the squad and the outgoing
\* player not of club X, the incoming player is never of club X.
C10_TeamLimitRespected ==
    recOut # <<>> =>
        LET squad == recIn[1].squad
        IN \A k \in 1..Len(recOut[1]) :
              LET r == recOut[1][k]
                  after == squadAfter(squad, squad[outgoingOf(squad, r)], incomingOf(r))
              IN /\ \A i \in DOMAIN after : teamCount(after, after[i].team) <= 3
                 /\ (teamCount(squad, "X") = 3 /\ r.out_team # "X") => r.in_team # "X"

\* with three players of club X in the squad, the one recommendation that sells
\* a player of X buys the best candidate, of X, and another buys elsewhere
C10_Witness ==
    /\ recOut # <<>>
    /\ teamCount(recIn[1].squad, "X") = 3
    /\ \E k \in 1..Len(recOut[1]) :
          recOut[1][k].out_team = "X" /\ recOut[1][k].in_team = "X"
    /\ \E k \in 1..Len(recOut[1]) :
          recOut[1][k].out_team # "X" /\ recOut[1][k].in_team = "Y"

(***************************************************************************)
(* The engine's Point Projection Model.  Rates per 90 are in hundredths,   *)
(* probabilities, the fixture difficulty and the bonus estimate in tenths; *)
(* a projection is the rational num / den points.                          *)
(***************************************************************************)
\* the largest expected goals per 90 drawn, in quarters of a goal
MaxXGQuarters == 3

\* goal_points by position
goal_points(position) ==
    CASE position \in {"GK", "DEF"} -> 6
      [] position = "MID" -> 5
      [] position = "FWD" -> 4

\* the goals term taken off the projection
projectedLessGoals(p) ==
    [num |-> p.xA90 * p.minutes_prob * 3
             - p.xG90 * p.minutes_prob * goal_points(p.position)
             + p.fixture_difficulty
               * (10 * p.team_CS_prob * p.CS_points + 100 * p.appearance_points
                  + 10 * p.bonus_estimate),
     den |-> 100 * p.fixture_difficulty]

\* (xG/90 * minutes_prob * goal_points / fixture_difficulty)
\* + (xA/90 * minutes_prob * 3 / fixture_difficulty)
\* + (team_CS_prob * CS_points) + appearance_points + bonus_estimate
projected_points(p) ==
    [num |-> p.xG90 * p.minutes_prob * goal_points(p.position)
             + p.xA90 * p.minutes_prob * 3
             + p.fixture_difficulty
               * (10 * p.team_CS_prob * p.CS_points + 100 * p.appearance_points
                  + 10 * p.bonus_estimate),
     den |-> 100 * p.fixture_difficulty]

ProjectionInputs ==
    [xG90 : {25 * k : k \in 0..MaxXGQuarters},
     xA90 : {0, 30},
     minutes_prob : {0, 5, 10},
     position : {"GK", "DEF", "MID", "FWD"},
     fixture_difficulty : {8, 10, 13},
     team_CS_prob : {0, 4},
     CS_points : {4},
     appearance_points : {0, 2},
     bonus_estimate : {5}]

InitProj ==
    /\ AppIdle
    /\ xminIn = <<>> /\ xminOut = <<>>
    /\ recIn = <<>> /\ recOut = <<>>
    /\ \E p \in ProjectionInputs, k \in 0..MaxXGQuarters :
          /\ 25 * k >= p.xG90
          /\ projIn = <<[player |-> p, raised_xG90 |-> 25 * k]>>
    /\ projOut = <<>>

\* the model projects the player as he is and with the raised rate
ProjectPoints ==
    /\ projOut = <<>>
    /\ projOut' = <<[base |-> projected_points(projIn[1].player),
                     raised |-> projected_points(
                        [projIn[1].player EXCEPT !.xG90 = projIn[1].raised_xG90])]>>
    /\ UNCHANGED <<appVars, xminVars, recVars, projIn>>

NextProj == ProjectPoints

SpecProj == InitProj /\ [][NextProj]_vars

\* C13: with expected minutes, expected assists, a fixture difficulty above 0
\* and all other inputs fixed, a higher expected-goals-per-90 never gives a
\* lower projection.
C13_ProjectionMonotoneInXG ==
    projOut # <<>> =>
        /\ projOut[1].base.den > 0 /\ projOut[1].raised.den > 0
        /\ projOut[1].raised.num * projOut[1].base.den
              >= projOut[1].base.num * projOut[1].raised.den

\* a rate raised for a player with minutes gives a strictly higher projection
C13_Witness ==
    /\ projOut # <<>>
    /\ projIn[1].raised_xG90 > projIn[1].player.xG90
    /\ projIn[1].player.minutes_prob > 0
    /\ projIn[1].player.fixture_difficulty = 13
    /\ projOut[1].raised.num * projOut[1].base.den
          > projOut[1].base.num * projOut[1].raised.den

(***************************************************************************)
(* The initial load: App's effect fetches the four data files and sets the *)
(* datasets in the callback of Promise.all.                                *)
(***************************************************************************)
\* useState(null)
null == <<>>

\* how a fetch ends: an OK response with a body that parses, a response that
\* is not OK, or a rejection (no response, or a body that does not parse)
Outcomes == {"ok", "not_ok", "rejected"}

\* every response is taken to carry its body
parsedWhateverStatus(d, outcome) == Payload(d)

\* r => r.ok ? r.json() : null
parsed(d, outcome) == IF outcome = "ok" THEN Payload(d) ELSE null

\* Promise.all is fulfilled: every fetch has ended and none was rejected
allFulfilled == \A d \in Datasets : responses[d] \in {"ok", "not_ok"}

InitLoad ==
    /\ loading = TRUE
    /\ responses = [d \in Datasets |-> "pending"]
    /\ datasets = [d \in Datasets |-> null]
    /\ recommendations = null
    /\ currentData = GameweekData(0, 0, 0, 0)
    /\ plannedTransfers = <<>>
    /\ activeTab = "overview"
    /\ viewMode = "current"
    /\ effectPending = FALSE
    /\ renders = <<>>
    /\ EngineIdle

\* the fetch of one data file ends
fetchEnds(d, outcome) ==
    /\ responses[d] = "pending"
    /\ responses' = [responses EXCEPT ![d] = outcome]
    /\ UNCHANGED <<loading, datasets, recommendations, currentData, plannedTransfers,
                   activeTab, viewMode, effectPending, renders, engineVars>>

\* the callback of Promise.all: the four setters, then setLoading(false)
setAll ==
    /\ loading
    /\ allFulfilled
    /\ datasets' = [d \in Datasets |-> parsed(d, responses[d])]
    /\ recommendations' = IF responses["recommendations"] = "ok"
                             THEN transfer_recommendations ELSE null
    /\ loading' = FALSE
    /\ UNCHANGED <<responses, currentData, plannedTransfers, activeTab, viewMode,
                   effectPending, renders, engineVars>>

NextLoad ==
    \/ \E d \in Datasets, outcome \in Outcomes : fetchEnds(d, outcome)
    \/ setAll

\* the callback of a fulfilled promise is run
SpecLoad == InitLoad /\ [][NextLoad]_vars /\ WF_vars(setAll)

\* while loading no dataset is set; once loading has ended every fetch has
\* ended, and a dataset is null exactly when its response was not OK
loadedFromOwnResponses ==
    /\ loading => \A d \in Datasets : datasets[d] = null
    /\ ~loading =>
          \A d \in Datasets :
              \/ responses[d] = "ok" /\ datasets[d] = Payload(d)
              \/ responses[d] = "not_ok" /\ datasets[d] = null

\* C20: a data file that responds with a non-OK status leaves that dataset
\* alone null, the others are set from their own responses and loading ends;
\* the datasets are set together once every fetch has completed, so none of
\* them is set while loading is true.
C20_NonOkLeavesOneNull ==
    /\ []loadedFromOwnResponses
    /\ [][datasets' # datasets => loading /\ ~loading' /\ allFulfilled]_vars
    /\ (allFulfilled ~> ~loading)

\* the load has ended with one file not OK: that dataset is null, the three
\* others are set
C20_Witness ==
    /\ ~loading
    /\ responses["my_team"] = "not_ok"
    /\ datasets["my_team"] = null
    /\ \A d \in Datasets \ {"my_team"} : responses[d] = "ok" /\ datasets[d] = Payload(d)

(***************************************************************************)
(* SquadPlannerView: the planned squad and its totals, in tenths of a      *)
(* point.                                                                  *)
(***************************************************************************)
\* the multiplier of a squad entry of my_team.json: 0 on the bench, above 0 in
\* the starting eleven, 2 for the captain
multiplier(id) ==
    IF id \in {2, 7, 12, 15} THEN 0 ELSE IF id = 13 THEN 2 ELSE 1

\* myTeam.squad: the 15 players with their multiplier and projections
currentSquad ==
    [id \in SquadIds |->
        [player_id |-> id, name |-> Name(id), position |-> PositionOf(id),
         multiplier |-> multiplier(id), projected_pts |-> 20, projected_4gw |-> 80]]

\* { ...player, isNew: false }
keptPlayer(player) == [isNew |-> FALSE] @@ player

\* the incoming player put into the slot as a starter
boughtAsStarter(player, transferOut, incomingProj) ==
    [player_id |-> transferOut.in_id, name |-> transferOut.in_name,
     position |-> player.position, multiplier |-> 1,
     projected_pts |-> incomingProj.next_gw_pts,
     projected_4gw |-> incomingProj.next_4gw_pts, isNew |-> TRUE]

\* the slot with the incoming player's identity and projections:
\* { ...player, player_id, name, projected_pts, projected_4gw, isNew: true }
boughtPlayer(player, transferOut, incomingProj) ==
    [isNew |-> TRUE] @@
    [player EXCEPT !.player_id = transferOut.in_id,
                   !.name = transferOut.in_name,
                   !.projected_pts = incomingProj.next_gw_pts,
                   !.projected_4gw = incomingProj.next_4gw_pts]

\* one squad player after the planned transfers
plannedPlayer(player) ==
    LET transferOut == find(plannedTransfers,
                            {i \in 1..Len(plannedTransfers) :
                                plannedTransfers[i].out_id = player.player_id})
    IN IF transferOut = <<>> THEN keptPlayer(player)
       ELSE LET incomingProj ==
                    find(allProjections,
                         {i \in 1..Len(allProjections) :
                             allProjections[i].player_id = transferOut[1].in_id})
            IN IF incomingProj = <<>> THEN keptPlayer(player)
               ELSE boughtPlayer(player, transferOut[1], incomingProj[1])

plannedSquad == [i \in 1..Len(currentSquad) |-> plannedPlayer(currentSquad[i])]

RECURSIVE total4GW(_)
\* reduce((sum, p) => sum + (p.multiplier > 0 ? (p.projected_4gw || 0) : 0), 0)
total4GW(squad) ==
    IF squad = <<>> THEN 0
    ELSE total4GW(SubSeq(squad, 1, Len(squad) - 1))
         + (IF squad[Len(squad)].multiplier > 0 THEN squad[Len(squad)].projected_4gw ELSE 0)

fourGWDiff == total4GW(plannedSquad) - total4GW(currentSquad)

\* four points for every planned transfer
hitCostOfEveryTransfer == Len(plannedTransfers) * 10 * HitCost

\* plannedTransfers.length > 1 ? (plannedTransfers.length - 1) * 4 : 0
hitCost ==
    IF Len(plannedTransfers) > 1 THEN (Len(plannedTransfers) - 1) * 10 * HitCost ELSE 0

netGain4GW == fourGWDiff - hitCost

\* what the planned transfers add to one starter's four-gameweek projection
gainAt(id) ==
    LET sold == {k \in 1..Len(plannedTransfers) : plannedTransfers[k].out_id = id}
        first == CHOOSE k \in sold : \A l \in sold : k <= l
        bought == {q \in 1..Len(allProjections) :
                      allProjections[q].player_id = plannedTransfers[first].in_id}
    IN IF sold = {} \/ currentSquad[id].multiplier = 0 THEN 0
       ELSE IF bought = {} THEN 0
       ELSE allProjections[CHOOSE q \in bought : TRUE].next_4gw_pts
            - currentSquad[id].projected_4gw

RECURSIVE gainUpTo(_)
gainUpTo(id) == IF id = 0 THEN 0 ELSE gainUpTo(id - 1) + gainAt(id)

\* C19: in the squad planner the hit cost is 4 points for each planned transfer
\* beyond the first, 0 for none or one, never negative, and the net 4-gameweek
\* gain is the planned less the current 4-gameweek total of the starters, less
\* the hit cost.
C19_HitCostAndNetGain ==
    activeTab = "planner" =>
        LET n == Len(plannedTransfers)
        IN /\ hitCost = (IF n >= 2 THEN 40 * (n - 1) ELSE 0)
           /\ hitCost >= 0
           /\ netGain4GW = gainUpTo(15) - hitCost

\* the planner with two planned transfers, one of them for a starter: a hit of
\* 4 points taken off a gain of 7
C19_Witness ==
    /\ activeTab = "planner"
    /\ Len(plannedTransfers) = 2
    /\ hitCost = 40
    /\ fourGWDiff = 70
    /\ netGain4GW = 30

\* C11: a transfer is marked worth a hit exactly when its horizon gain is
\* strictly above 4 points; a gain of exactly 4 is not worth a hit; the net
\* value of a transfer worth a hit is its gain less 4.
C11_WorthHitAboveThreshold ==
    recOut # <<>> =>
        \A k \in 1..Len(recOut[1]) :
            LET r == recOut[1][k]
            IN /\ r.worth_hit <=> r.gain_4gw > 4
               /\ r.gain_4gw = 4 => ~r.worth_hit
               /\ r.worth_hit => r.hit_value = r.gain_4gw - 4

\* one run recommends a transfer of gain exactly 4, not worth a hit, and one of
\* a larger gain, worth it
C11_Witness ==
    /\ recOut # <<>>
    /\ \E k \in 1..Len(recOut[1]) :
          recOut[1][k].gain_4gw = 4 /\ ~recOut[1][k].worth_hit
    /\ \E k \in 1..Len(recOut[1]) :
          /\ recOut[1][k].gain_4gw = 15
          /\ recOut[1][k].worth_hit
          /\ recOut[1][k].hit_value = 11

\* the squad players with role multiplier 0
benchOnly(squad) == {i \in DOMAIN squad : squad[i].multiplier = 0}

\* the recommendations sell the squad player
isSold(recs, player) == \E k \in 1..Len(recs) : recs[k].out_id = player.player_id

\* some candidate of the pool may replace the squad player
hasReplacement(squad, bank, player) ==
    \E c \in Range(CandidatePool) : isAllowed(squad, bank, player, c)

\* C12: under the starters-only policy no recommendation sells a squad player
\* of role multiplier 0; under the all-15 policy such a player is an outgoing
\* candidate: he is sold whenever the pool holds a replacement for him.
C12_BenchOnlyByPolicy ==
    recOut # <<>> =>
        LET squad == recIn[1].squad
            recs == recOut[1]
        IN \A i \in benchOnly(squad) :
              IF recIn[1].allFifteen
              THEN hasReplacement(squad, recIn[1].bank, squad[i]) => isSold(recs, squad[i])
              ELSE ~isSold(recs, squad[i])

\* a run under the all-15 policy that sells a bench-only player and a starter
C12_Witness ==
    /\ recOut # <<>>
    /\ recIn[1].allFifteen
    /\ \E i \in benchOnly(recIn[1].squad) : isSold(recOut[1], recIn[1].squad[i])
    /\ \E i \in DOMAIN recIn[1].squad \ benchOnly(recIn[1].squad) :
          isSold(recOut[1], recIn[1].squad[i])

\* the data's player with every field as the file has it, marked not new
asInData(q, p) ==
    /\ DOMAIN q = DOMAIN p \cup {"isNew"}
    /\ \A field \in DOMAIN p : q[field] = p[field]
    /\ q.isNew = FALSE

\* what the formation search makes of the squad with the planned transfers
searchedXI == LET byPos == byPosition IN buildXI(byPos, bestFormation(byPos))

\* C22: with no planned transfers, or in the 'current' view mode, the shown XI
\* and bench are the gameweek's starting_xi and bench of the data, in the same
\* order and with the same field values, each marked isNew = false: the result
\* of the formation search is not used.
C22_CurrentModeShowsTheData ==
    (activeTab = "xi" /\ (Len(plannedTransfers) = 0 \/ viewMode = "current")) =>
        LET xi == displayXI
            bench == displayBench
        IN /\ Len(xi) = Len(currentData.starting_xi)
           /\ \A i \in 1..Len(xi) : asInData(xi[i], currentData.starting_xi[i])
           /\ Len(bench) = Len(currentData.bench)
           /\ \A i \in 1..Len(bench) : asInData(bench[i], currentData.bench[i])

\* the 'current' view with transfers planned, for which the search would give
\* another eleven than the data's
C22_Witness ==
    /\ activeTab = "xi"
    /\ ~effectPending
    /\ viewMode = "current"
    /\ Len(plannedTransfers) > 0
    /\ searchedXI # displayXI

\* the places of the planned list that do not sell the player of out_id
keptPlaces(out_id) ==
    {k \in 1..Len(plannedTransfers) : plannedTransfers[k].out_id # out_id}

\* the j-th of the kept places, in the list's order
keptPlace(kept, j) ==
    CHOOSE k \in kept : Cardinality({l \in kept : l < k}) = j - 1

\* the step leaves exactly the entries that do not sell out_id, in their order
removesExactly(out_id) ==
    LET kept == keptPlaces(out_id)
    IN /\ Len(plannedTransfers') = Cardinality(kept)
       /\ \A j \in 1..Cardinality(kept) :
             plannedTransfers'[j] = plannedTransfers[keptPlace(kept, j)]

\* the step adds `transfer` at the end and keeps the entries before it
appendsOnly(transfer) ==
    /\ Len(plannedTransfers') = Len(plannedTransfers) + 1
    /\ \A k \in 1..Len(plannedTransfers) : plannedTransfers'[k] = plannedTransfers[k]
    /\ plannedTransfers'[Len(plannedTransfers')] = transfer

\* a Try that the handler accepts: neither test of handleTryTransfer returns
accepted(transfer) == ~isApplied(transfer) /\ ~isIncoming(transfer)

\* the last entry of the list is the one a Try of `transfer` has added
lastTried(transfer) ==
    /\ plannedTransfers # <<>>
    /\ plannedTransfers[Len(plannedTransfers)].out_id = transfer.out_id

\* the list as it was before its last entry was added
beforeLastTry == SubSeq(plannedTransfers, 1, Len(plannedTransfers) - 1)

\* C23: Remove deletes exactly the planned transfers of the outgoing player and
\* keeps the others in their order; an accepted Try appends the transfer and
\* keeps the earlier entries; so Remove of the transfer last tried restores the
\* list as it was before that Try; Clear-all gives the empty list.
C23_TryRemoveClear ==
    [][/\ \A i \in 1..Len(recommendations) :
            /\ handleRemoveTransfer(i) => removesExactly(recommendations[i].out_id)
            /\ (handleRemoveTransfer(i) /\ lastTried(recommendations[i]))
                  => plannedTransfers' = beforeLastTry
            /\ (handleTryTransfer(i) /\ accepted(recommendations[i]))
                  => appendsOnly(recommendations[i])
            /\ \A a \in alternativesOf(recommendations[i]) :
                  (handleTryAlternative(i, a[1])
                     /\ accepted(altTransfer(recommendations[i], a[1])))
                  => appendsOnly(altTransfer(recommendations[i], a[1]))
       /\ handleClearAllTransfers => plannedTransfers' = <<>>]_vars

\* the planner with two planned transfers, the second recommendation tried
\* before the first and an alternative taken for one of them
C23_Witness ==
    /\ activeTab = "planner"
    /\ Len(plannedTransfers) = 2
    /\ plannedTransfers[1].out_id = recommendations[2].out_id
    /\ \E k \in 1..2, i \in 1..Len(recommendations) :
          /\ plannedTransfers[k].out_id = recommendations[i].out_id
          /\ plannedTransfers[k].in_id # recommendations[i].in_id

(***************************************************************************)
(* The app on recommendations that buy one player for two squad players.   *)
(***************************************************************************)
\* recommendations.transfer_recommendations: two midfielders, each with player
\* 101 as the best replacement found for him
shared_recommendations ==
    << Recommendation(11, 101, 80, 60, <<>>, <<Alternative(102, 60, 40)>>, <<>>),
       Recommendation(12, 101, 80, 50, <<Alternative(104, 45, 20)>>, <<>>, <<>>) >>

InitShared ==
    /\ \E c \in RenderCounts :
          currentData = GameweekData(c["GK"], c["DEF"], c["MID"], c["FWD"])
    /\ Loaded
    /\ recommendations = shared_recommendations
    /\ plannedTransfers = <<>>
    /\ activeTab = "overview"
    /\ viewMode = "current"
    /\ effectPending = FALSE
    /\ renders = <<>>
    /\ EngineIdle

SpecShared == InitShared /\ [][Next]_vars

\* C24: no player is the incoming player of two planned transfers, and the
\* planner's planned squad holds no player in two slots.
C24_IncomingOnlyOnce ==
    /\ \A i, j \in 1..Len(plannedTransfers) :
          i # j => plannedTransfers[i].in_id # plannedTransfers[j].in_id
    /\ LET squad == plannedSquad
       IN \A a, b \in 1..Len(squad) :
             a # b => squad[a].player_id # squad[b].player_id

\* the squad slots whose player the planned squad has replaced
changedSlots ==
    LET squad == plannedSquad
    IN {i \in 1..Len(currentSquad) : squad[i].player_id # currentSquad[i].player_id}

holds(squad, id) == \E i \in 1..Len(squad) : squad[i].player_id = id

\* C25: for each planned transfer whose outgoing player is in the current
\* squad, the planner's planned squad holds the incoming player and no longer
\* the outgoing player, and the number of planned transfers, which is the
\* number charged for, is the number of squad slots changed.
C25_EveryTransferReflected ==
    activeTab = "planner" =>
        LET squad == plannedSquad
        IN /\ \A k \in 1..Len(plannedTransfers) :
                 holds(currentSquad, plannedTransfers[k].out_id) =>
                    /\ holds(squad, plannedTransfers[k].in_id)
                    /\ ~holds(squad, plannedTransfers[k].out_id)
           /\ Len(plannedTransfers) = Cardinality(changedSlots)

\* the players of the squad with a multiplier above 0
starters(squad) == {i \in 1..Len(squad) : squad[i].multiplier > 0}

\* a planned transfer sells the player
named(player) ==
    \E k \in 1..Len(plannedTransfers) : plannedTransfers[k].out_id = player.player_id

\* C26: the planner's planned squad has as many players as the current squad,
\* each slot keeps the position and the multiplier of the current player of
\* the slot, a slot no planned transfer names keeps every field of the current
\* player, and the number of starters is unchanged.
C26_PlannedSquadKeepsShape ==
    activeTab = "planner" =>
        LET squad == plannedSquad
        IN /\ Len(squad) = Len(currentSquad)
           /\ \A i \in 1..Len(currentSquad) :
                 /\ squad[i].position = currentSquad[i].position
                 /\ squad[i].multiplier = currentSquad[i].multiplier
                 /\ ~named(currentSquad[i]) =>
                       \A field \in DOMAIN currentSquad[i] :
                           squad[i][field] = currentSquad[i][field]
           /\ Cardinality(starters(squad)) = Cardinality(starters(currentSquad))

\* the planner with a starter's slot and a substitute's slot both taken by
\* incoming players
C26_Witness ==
    /\ activeTab = "planner"
    /\ \E i \in changedSlots : currentSquad[i].multiplier > 0
    /\ \E i \in changedSlots : currentSquad[i].multiplier = 0

====
